---- MODULE Spec2Model ----
(***************************************************************************)
(* Model of the resource-resolution layer of dioxus-typst (src/lib.rs):    *)
(* CompileOptions, CompileWorld (source / file / get_package_file) and     *)
(* the downloader module (disk cache directory + registry fetch).          *)
(*                                                                         *)
(* Paths are sequences of one-character strings, byte contents are         *)
(* sequences of integers 0..255, a HashMap is a function whose DOMAIN is   *)
(* its key set.                                                            *)
(***************************************************************************)
EXTENDS Integers, Sequences, FiniteSets, TLC

(* ------------------------------ bounds --------------------------------- *)

\* longest path string given to normalize_path
MaxLen == 3
\* most builder calls made on one CompileOptions value
MaxInserts == 2
\* most entries of an archive whose extraction is read back from disk
MaxEntries == 2
\* number of worker threads calling into one CompileWorld
NumThreads == 2
\* total number of World calls (source / file) started in one behaviour
MaxCalls == 3

Threads == 1..NumThreads

(* --------------------------- small universe ---------------------------- *)

EmptyMap == [x \in {} |-> <<>>]

Put(f, k, v) == [x \in (DOMAIN f) \cup {k} |-> IF x = k THEN v ELSE f[x]]

\* package() of a FileId that has no package
NoPkg == "none"
Demo == "preview/demo:0.1.0"
Ghost == "preview/ghost:0.1.0"
Specs == {Demo, Ghost}

RelA == <<"a">>
RelB == <<"b">>
RelDir == <<"d">>
PathA == <<"/">> \o RelA
PathB == <<"/">> \o RelB
PathC == <<"/", "c">>
MainPath == <<"/", "m", "a", "i", "n", ".", "t", "y", "p">>

BytesA == <<97>>
BytesB == <<255>>
BytesSeed == <<115>>
BytesLogo == <<137, 80>>
TextTitle == <<61, 32, 84>>
TextOther == <<104>>

(* ----------------------- results (FileResult<T>) ----------------------- *)

Ok(v) == [tag |-> "Ok", val |-> v, err |-> ""]
Err(e) == [tag |-> "Err", val |-> <<>>, err |-> e]
NoResult == [tag |-> "None", val |-> <<>>, err |-> ""]

(* ---------------------------- normalize_path --------------------------- *)

normalize_path_prepend(path) == <<"/">> \o path

normalize_path(path) ==
    IF Len(path) > 0 /\ path[1] = "/" THEN path ELSE <<"/">> \o path

(* ---------------------------- CompileOptions ---------------------------- *)

CompileOptionsNew == [files |-> EmptyMap, packages |-> EmptyMap]

with_file_raw(self, path, content) ==
    [self EXCEPT !.files = Put(@, path, content)]
with_file(self, path, content) ==
    [self EXCEPT !.files = Put(@, normalize_path(path), content)]

\* keys of the file set are normalized; the inputs used below never hold two
\* keys with the same normal form
NormalizeKeys(fs) ==
    [k \in {normalize_path(p) : p \in DOMAIN fs} |->
        fs[CHOOSE p \in DOMAIN fs : normalize_path(p) = k]]

with_package(self, spec, fs) ==
    [self EXCEPT !.packages = Put(@, spec, NormalizeKeys(fs))]

\* the CompileOptions values a caller builds in this model
SeedFiles == [p \in {RelA} |-> BytesSeed]
OptionChoices ==
    { CompileOptionsNew,
      with_package(CompileOptionsNew, Demo, SeedFiles),
      with_file(with_file(CompileOptionsNew, MainPath, BytesLogo), RelA, BytesLogo) }

MainTexts == {TextTitle, TextOther}

(* ------------------------------- FileId -------------------------------- *)

FileId(pkg, vpath) == [pkg |-> pkg, vpath |-> vpath]

\* FileId::new interns the pair: equal pairs are the same id
main_id == FileId(NoPkg, MainPath)

IsMainNever(id) == FALSE
IsMain(id) == id = main_id

(* ----------------------- String::from_utf8 ----------------------------- *)

IsCont(b) == b >= 128 /\ b <= 191

RECURSIVE IsUtf8(_)
IsUtf8(bs) ==
    IF bs = <<>> THEN TRUE
    ELSE LET b == bs[1]
             n == Len(bs)
         IN  IF b < 128 THEN IsUtf8(Tail(bs))
             ELSE IF b >= 194 /\ b <= 223
                  THEN n >= 2 /\ IsCont(bs[2]) /\ IsUtf8(SubSeq(bs, 3, n))
             ELSE IF b >= 224 /\ b <= 239
                  THEN /\ n >= 3
                       /\ IsCont(bs[2]) /\ IsCont(bs[3])
                       /\ (b = 224 => bs[2] >= 160)
                       /\ (b = 237 => bs[2] <= 159)
                       /\ IsUtf8(SubSeq(bs, 4, n))
             ELSE IF b >= 240 /\ b <= 244
                  THEN /\ n >= 4
                       /\ IsCont(bs[2]) /\ IsCont(bs[3]) /\ IsCont(bs[4])
                       /\ (b = 240 => bs[2] >= 144)
                       /\ (b = 244 => bs[2] <= 143)
                       /\ IsUtf8(SubSeq(bs, 5, n))
             ELSE FALSE

(* ------------------------- registry and archive ------------------------ *)

FileEntry(rel, content) == [kind |-> "file", path |-> rel, content |-> content]
DirEntry(rel) == [kind |-> "dir", path |-> rel, content |-> <<>>]
BadEntry == [kind |-> "bad", path |-> <<>>, content |-> <<>>]

\* the tar archive the registry serves for each package it has
Registry == [s \in {Demo} |->
                << FileEntry(RelA, BytesA), DirEntry(RelDir), FileEntry(RelB, BytesB) >>]

\* numbers of entries after which a damaged body breaks the tar stream
TruncPoints == {0, 1}

\* the file set of a well-formed archive, as download_package builds it
RECURSIVE ArchiveFiles(_)
ArchiveFiles(entries) ==
    IF entries = <<>> THEN EmptyMap
    ELSE LET e == entries[Len(entries)]
             rest == ArchiveFiles(SubSeq(entries, 1, Len(entries) - 1))
         IN  IF e.kind = "file" THEN Put(rest, <<"/">> \o e.path, e.content)
             ELSE rest

\* what one GET can produce: a failure (connection, timeout, status >= 400),
\* the archive, or a body whose tar stream breaks after k entries
NetResponses(s) ==
    {[ok |-> FALSE, entries |-> <<>>]} \cup
    (IF s \in DOMAIN Registry
        THEN {[ok |-> TRUE, entries |-> Registry[s]]} \cup
             {[ok |-> TRUE, entries |-> SubSeq(Registry[s], 1, k) \o <<BadEntry>>] :
                 k \in TruncPoints}
        ELSE {})

(* ------------------------------- state --------------------------------- *)

VARIABLES
    options,           \* the CompileOptions CompileWorld::new was given
    main,              \* CompileWorld.main: text of the main document
    files,             \* CompileWorld.files
    packages,          \* CompileWorld.packages (the map inside the RwLock)
    allow_downloads,   \* CompileWorld.allow_downloads
    readers, writer,   \* RwLock state: threads holding read guards / the write guard
    cache_dir,         \* whether dirs::cache_dir() is Some
    disk,              \* package directories that exist |-> files in them
    pc, call, arc, dl, res,   \* per thread: position, call, archive left, file set, result
    io,                \* per thread: I/O done by the current call
    persistFailed,     \* per thread: a disk write of the current call failed
    calls,             \* number of calls started
    fetched,           \* spec |-> file set of the first completed successful fetch
    seen,              \* per thread: fetched set of the call's spec when the call began
    faults,            \* an environment failure (network, archive, disk) has happened
    probe              \* one application of a pure function: its input and its result

vars == << options, main, files, packages, allow_downloads, readers, writer, cache_dir, disk,
           pc, call, arc, dl, res, io, persistFailed, calls, fetched, seen, faults, probe >>

NoWriter == 0
NoCall == [op |-> "none", id |-> FileId(NoPkg, <<>>)]
\* no pure function is under study: the state of a running resolver
NoProbe == [fn |-> "none"]

(* --------------------------- CompileWorld::new ------------------------- *)

\* Bytes::new(content.clone()) keeps the bytes
NewFiles(o) == o.files
NewPackages(o) == o.packages

\* disk cache left by earlier sessions: nothing, or Demo fully written
DiskChoices == { EmptyMap,
                 [s \in {Demo} |-> [r \in {RelA, RelB} |->
                                      IF r = RelA THEN BytesA ELSE BytesB]] }

\* the state after CompileWorld::new(source, options).with_downloads(allow)
InitResolver(mains, opts, allows, cacheDirs, disks) ==
    /\ main \in mains
    /\ options \in opts
    /\ files = NewFiles(options)
    /\ packages = NewPackages(options)
    /\ allow_downloads \in allows
    /\ readers = {}
    /\ writer = NoWriter
    /\ cache_dir \in cacheDirs
    /\ disk \in disks
    /\ (~cache_dir => disk = EmptyMap)
    /\ pc = [t \in Threads |-> "idle"]
    /\ call = [t \in Threads |-> NoCall]
    /\ arc = [t \in Threads |-> <<>>]
    /\ dl = [t \in Threads |-> EmptyMap]
    /\ res = [t \in Threads |-> NoResult]
    /\ io = [t \in Threads |-> "none"]
    /\ persistFailed = [t \in Threads |-> FALSE]
    /\ calls = 0
    /\ fetched = EmptyMap
    /\ seen = [t \in Threads |-> {}]
    /\ faults = FALSE

InitWith(mains, opts, allows, cacheDirs, disks) ==
    /\ InitResolver(mains, opts, allows, cacheDirs, disks)
    /\ probe = NoProbe

Init == InitWith({TextTitle}, OptionChoices, BOOLEAN, BOOLEAN, DiskChoices)

\* a resolver with downloads allowed, nothing seeded and an empty disk cache
InitCold == InitWith({TextTitle}, {CompileOptionsNew}, {TRUE}, {TRUE}, {EmptyMap})

\* resolvers over every main text and every caller-supplied option set
InitWorld == InitWith(MainTexts, OptionChoices, {TRUE}, {TRUE}, {EmptyMap})


(* --------------------------- downloader module ------------------------- *)

\* Path::components() of a path string: the pieces between the separators
RECURSIVE Components(_)
Components(p) ==
    IF p = <<>> THEN << <<>> >>
    ELSE LET rest == Components(Tail(p))
         IN  IF Head(p) = "/" THEN << <<>> >> \o rest
             ELSE << <<Head(p)>> \o Head(rest) >> \o Tail(rest)

\* the directory entries a relative path walks through below a directory:
\* "" and "." stay in place, ".." goes one up; Escaped when it leaves the directory
Escaped == << <<".", ".">> >>
RECURSIVE Walk(_, _)
Walk(cs, at) ==
    IF cs = <<>> THEN at
    ELSE LET c == Head(cs)
         IN  IF c = <<>> \/ c = <<".">> THEN Walk(Tail(cs), at)
             ELSE IF c = <<".", ".">>
                  THEN IF at = <<>> THEN Escaped
                       ELSE Walk(Tail(cs), SubSeq(at, 1, Len(at) - 1))
             ELSE Walk(Tail(cs), Append(at, c))

\* relative.to_string_lossy() of a walked path: its names joined by "/"
RECURSIVE JoinPath(_)
JoinPath(cs) ==
    IF cs = <<>> THEN <<>>
    ELSE IF Len(cs) = 1 THEN cs[1]
    ELSE cs[1] \o <<"/">> \o JoinPath(Tail(cs))

\* cache.join(&path): an absolute `path` replaces the base, a relative one is
\* resolved below it by the file system
IsAbsolute(rel) == Len(rel) > 0 /\ rel[1] = "/"
InsideDir(rel) ==
    /\ ~IsAbsolute(rel)
    /\ Walk(Components(rel), <<>>) # Escaped
    /\ Walk(Components(rel), <<>>) # <<>>
\* the file's path relative to the package directory, as read_dir finds it
StoredAs(rel) == JoinPath(Walk(Components(rel), <<>>))

\* read_package_dir / read_dir_recursive: every regular file below the
\* directory, keyed by "/" + its path relative to the directory
read_package_dir(dirFiles) ==
    [k \in {<<"/">> \o r : r \in DOMAIN dirFiles} |-> dirFiles[Tail(k)]]

\* std::fs::create_dir_all(path) succeeding
CreateDir(d, s) == IF s \in DOMAIN d THEN d ELSE Put(d, s, EmptyMap)

\* outcome of `create_dir_all(parent)` followed by `fs::write(file_path, content)`,
\* both with their errors dropped (`let _ =`)
WriteOutcomes == {"written", "dir_only", "failed"}

PersistFileNever(d, s, rel, content, w) == d

\* a file whose path leaves the package directory, or names the directory
\* itself, puts nothing into the directory
PersistFile(d, s, rel, content, w) ==
    IF w = "written"
       THEN IF InsideDir(rel)
               THEN Put(d, s, Put(CreateDir(d, s)[s], StoredAs(rel), content))
               ELSE CreateDir(d, s)
    ELSE IF w = "dir_only" THEN CreateDir(d, s)
    ELSE d

\* files.insert(path_str, content) after the write attempt of one file entry
AfterEntryStrict(fs, e, w) ==
    IF w = "written" THEN Put(fs, <<"/">> \o e.path, e.content) ELSE fs
AfterEntry(fs, e, w) == Put(fs, <<"/">> \o e.path, e.content)

(* ----------------------- CompileWorld::get_package_file ---------------- *)

ErrNotFound == "NotFound"
ErrPkgNotFound == "Package:NotFound"
ErrNetwork == "Package:NetworkFailed"
ErrMalformed == "Package:MalformedArchive"
ErrOther == "Package:Other"
ErrUtf8 == "InvalidUtf8"

\* downloaded.get(path).map(..).ok_or_else(|| FileError::NotFound(..))
ResultOfEmpty(fs, path) == IF path \in DOMAIN fs THEN Ok(fs[path]) ELSE Ok(<<>>)

\* the end of the block that holds the read guard: the guard is dropped
ReleaseReadNever(rs, t) == rs
ReleaseRead(rs, t) == rs \ {t}

\* `download_package(..).map_err(FileError::Package)?`: a failed fetch
\* leaves get_package_file before the cache is touched
AfterFailedFetchCommit(pkgs, s, partial) == Put(pkgs, s, partial)
AfterFailedFetch(pkgs, s, partial) == pkgs

\* what a miss in the in-memory cache leads to
MissOutcomeAlways(allow) == "download"
MissOutcome(allow) == IF allow THEN "download" ELSE "notfound"

\* packages.insert(package.clone(), converted)
InsertPkgTorn(pkgs, s, fs) ==
    IF DOMAIN fs = {} THEN Put(pkgs, s, fs)
    ELSE LET k == CHOOSE x \in DOMAIN fs : TRUE
         IN  Put(pkgs, s, [x \in {k} |-> fs[x]])
InsertPkg(pkgs, s, fs) == Put(pkgs, s, fs)

\* downloaded.get(path).map(..).ok_or_else(|| FileError::NotFound(..))
ResultOf(fs, path) == IF path \in DOMAIN fs THEN Ok(fs[path]) ELSE Err(ErrNotFound)

\* what World::source / World::file make of get_package_file's result
WorldResultRaw(op, r) == r
WorldResult(op, r) ==
    IF op = "source" /\ r.tag = "Ok"
        THEN IF IsUtf8(r.val) THEN r ELSE Err(ErrUtf8)
        ELSE r

Finish(t, r) ==
    /\ pc' = [pc EXCEPT ![t] = "done"]
    /\ res' = [res EXCEPT ![t] = WorldResult(call[t].op, r)]

SpecOf(t) == call[t].id.pkg
PathOf(t) == call[t].id.vpath

(* ------------------------------ World calls ---------------------------- *)

\* the identifiers the compiler asks source() and file() for
SourceIds == { main_id, FileId(NoPkg, PathA),
               FileId(Demo, PathA), FileId(Demo, PathB) }
FileIds == { main_id, FileId(NoPkg, PathA),
             FileId(Demo, PathA), FileId(Demo, PathB), FileId(Demo, PathC),
             FileId(Ghost, PathA) }

Begin(t, op, id) ==
    /\ pc[t] = "idle"
    /\ calls < MaxCalls
    /\ calls' = calls + 1
    /\ call' = [call EXCEPT ![t] = [op |-> op, id |-> id]]
    /\ seen' = [seen EXCEPT ![t] =
                  IF id.pkg \in DOMAIN fetched THEN {fetched[id.pkg]} ELSE {}]

\* World::source(id) up to its return or its call of get_package_file
\* (the disjunct of a plain call is resolved without touching shared state)
Source(t) ==
    \E id \in SourceIds :
        /\ Begin(t, "source", id)
        /\ IF IsMain(id)
              THEN /\ pc' = [pc EXCEPT ![t] = "done"]
                   /\ res' = [res EXCEPT ![t] = Ok(main)]
              ELSE IF id.pkg # NoPkg
              THEN /\ pc' = [pc EXCEPT ![t] = "rlock"]
                   /\ res' = res
              ELSE /\ pc' = [pc EXCEPT ![t] = "done"]
                   /\ res' = [res EXCEPT ![t] = Err(ErrNotFound)]
        /\ UNCHANGED << probe, options, main, files, packages, allow_downloads, readers, writer,
                        cache_dir, disk, arc, dl, io, persistFailed, fetched, faults >>

\* World::file(id) up to its return or its call of get_package_file
File(t) ==
    \E id \in FileIds :
        /\ Begin(t, "file", id)
        /\ IF id.pkg # NoPkg
              THEN /\ pc' = [pc EXCEPT ![t] = "rlock"]
                   /\ res' = res
              ELSE /\ pc' = [pc EXCEPT ![t] = "done"]
                   /\ res' = [res EXCEPT ![t] = ResultOf(files, id.vpath)]
        /\ UNCHANGED << probe, options, main, files, packages, allow_downloads, readers, writer,
                        cache_dir, disk, arc, dl, io, persistFailed, fetched, faults >>

\* self.packages.read().unwrap()
ReadLock(t) ==
    /\ pc[t] = "rlock"
    /\ writer = NoWriter
    /\ readers' = readers \cup {t}
    /\ pc' = [pc EXCEPT ![t] = "lookup"]
    /\ UNCHANGED << probe, options, main, files, packages, allow_downloads, writer, cache_dir, disk,
                    call, arc, dl, res, io, persistFailed, calls, fetched, seen, faults >>

\* the lookup under the read guard, the guard's drop, and the allow_downloads test
Lookup(t) ==
    /\ pc[t] = "lookup"
    /\ readers' = ReleaseRead(readers, t)
    /\ LET s == SpecOf(t)
           p == PathOf(t)
       IN  IF s \in DOMAIN packages /\ p \in DOMAIN packages[s]
              THEN Finish(t, Ok(packages[s][p]))
              ELSE IF MissOutcome(allow_downloads) = "download"
              THEN /\ pc' = [pc EXCEPT ![t] = "download"]
                   /\ res' = res
              ELSE Finish(t, Err(ErrPkgNotFound))
    /\ UNCHANGED << probe, options, main, files, packages, allow_downloads, writer, cache_dir, disk,
                    call, arc, dl, io, persistFailed, calls, fetched, seen, faults >>

\* download_package: the package directory exists, so it is read and returned.
\* The directory is read in one step: it holds whatever the writers have
\* written so far, and nothing orders the read after a writer's last file.
DiskRead(t) ==
    /\ pc[t] = "download"
    /\ cache_dir /\ SpecOf(t) \in DOMAIN disk
    /\ io' = [io EXCEPT ![t] = "disk"]
    /\ \/ /\ dl' = [dl EXCEPT ![t] = read_package_dir(disk[SpecOf(t)])]
          /\ pc' = [pc EXCEPT ![t] = "wlock"]
          /\ UNCHANGED << res, faults, packages >>
       \/ /\ Finish(t, Err(ErrOther))
          /\ packages' = AfterFailedFetch(packages, SpecOf(t), dl[t])
          /\ faults' = TRUE
          /\ dl' = dl
    /\ UNCHANGED << probe, options, main, files, allow_downloads, readers, writer, cache_dir,
                    disk, call, arc, persistFailed, calls, fetched, seen >>

\* download_package: no directory, so GET the archive and create the directory
NetFetch(t) ==
    /\ pc[t] = "download"
    /\ ~(cache_dir /\ SpecOf(t) \in DOMAIN disk)
    /\ io' = [io EXCEPT ![t] = "net"]
    /\ \E r \in NetResponses(SpecOf(t)) :
          IF ~r.ok
             THEN /\ Finish(t, Err(ErrNetwork))
                  /\ packages' = AfterFailedFetch(packages, SpecOf(t), dl[t])
                  /\ faults' = TRUE
                  /\ UNCHANGED << arc, disk, persistFailed >>
             ELSE \E mk \in BOOLEAN :
                  /\ arc' = [arc EXCEPT ![t] = r.entries]
                  /\ disk' = IF cache_dir /\ mk THEN CreateDir(disk, SpecOf(t)) ELSE disk
                  /\ persistFailed' = [persistFailed EXCEPT ![t] = cache_dir /\ ~mk]
                  /\ faults' = (faults \/ r.entries # Registry[SpecOf(t)] \/ (cache_dir /\ ~mk))
                  /\ pc' = [pc EXCEPT ![t] = "extract"]
                  /\ UNCHANGED << res, packages >>
    /\ UNCHANGED << probe, options, main, files, allow_downloads, readers, writer, cache_dir,
                    call, dl, calls, fetched, seen >>

\* one turn of the loop over archive.entries(), or its end
Extract(t) ==
    /\ pc[t] = "extract"
    /\ IF arc[t] = <<>>
          THEN /\ pc' = [pc EXCEPT ![t] = "wlock"]
               /\ UNCHANGED << arc, dl, disk, res, persistFailed, faults, packages >>
          ELSE LET e == Head(arc[t]) IN
               IF e.kind = "bad"
                  THEN /\ Finish(t, Err(ErrMalformed))
                       /\ packages' = AfterFailedFetch(packages, SpecOf(t), dl[t])
                       /\ arc' = [arc EXCEPT ![t] = <<>>]
                       /\ dl' = [dl EXCEPT ![t] = EmptyMap]
                       /\ UNCHANGED << disk, persistFailed, faults >>
               ELSE IF e.kind = "dir"
                  THEN /\ arc' = [arc EXCEPT ![t] = Tail(@)]
                       /\ UNCHANGED << pc, dl, disk, res, persistFailed, faults, packages >>
               ELSE \E w \in WriteOutcomes :
                       /\ arc' = [arc EXCEPT ![t] = Tail(@)]
                       /\ disk' = IF cache_dir
                                     THEN PersistFile(disk, SpecOf(t), e.path, e.content, w)
                                     ELSE disk
                       /\ dl' = [dl EXCEPT ![t] = AfterEntry(@, e, w)]
                       /\ persistFailed' = [persistFailed EXCEPT ![t] =
                                               @ \/ (cache_dir /\ w # "written")]
                       /\ faults' = (faults \/ (cache_dir /\ w # "written"))
                       /\ UNCHANGED << pc, res, packages >>
    /\ UNCHANGED << probe, options, main, files, allow_downloads, readers, writer, cache_dir,
                    call, io, calls, fetched, seen >>

\* self.packages.write().unwrap()
WriteLock(t) ==
    /\ pc[t] = "wlock"
    /\ readers = {}
    /\ writer = NoWriter
    /\ writer' = t
    /\ pc' = [pc EXCEPT ![t] = "insert"]
    /\ UNCHANGED << probe, options, main, files, packages, allow_downloads, readers, cache_dir, disk,
                    call, arc, dl, res, io, persistFailed, calls, fetched, seen, faults >>

\* packages.insert(..), the write guard's drop and `return result`
Insert(t) ==
    /\ pc[t] = "insert"
    /\ packages' = InsertPkg(packages, SpecOf(t), dl[t])
    /\ writer' = NoWriter
    /\ Finish(t, ResultOf(dl[t], PathOf(t)))
    /\ dl' = [dl EXCEPT ![t] = EmptyMap]
    /\ fetched' = IF SpecOf(t) \in DOMAIN fetched THEN fetched
                  ELSE Put(fetched, SpecOf(t), dl[t])
    /\ UNCHANGED << probe, options, main, files, allow_downloads, readers, cache_dir, disk,
                    call, arc, io, persistFailed, calls, seen, faults >>

\* the call has returned to the compiler; the thread is free for the next one
Return(t) ==
    /\ pc[t] = "done"
    /\ pc' = [pc EXCEPT ![t] = "idle"]
    /\ call' = [call EXCEPT ![t] = NoCall]
    /\ res' = [res EXCEPT ![t] = NoResult]
    /\ io' = [io EXCEPT ![t] = "none"]
    /\ persistFailed' = [persistFailed EXCEPT ![t] = FALSE]
    /\ seen' = [seen EXCEPT ![t] = {}]
    /\ UNCHANGED << probe, options, main, files, packages, allow_downloads, readers, writer, cache_dir,
                    disk, arc, dl, calls, fetched, faults >>

Next ==
    \E t \in Threads :
        \/ Source(t)
        \/ File(t)
        \/ ReadLock(t)
        \/ Lookup(t)
        \/ DiskRead(t)
        \/ NetFetch(t)
        \/ Extract(t)
        \/ WriteLock(t)
        \/ Insert(t)
        \/ Return(t)

Spec == Init /\ [][Next]_vars
SpecCold == InitCold /\ [][Next]_vars
SpecWorld == InitWorld /\ [][Next]_vars

(* ------------------ the pure functions, applied to inputs -------------- *)

SeqsUpTo(S, n) == UNION { [1..k -> S] : k \in 0..n }

\* path strings over a small alphabet
PathChars == {"/", "a", "."}
Paths == SeqsUpTo(PathChars, MaxLen)

\* file names a caller passes to with_file / with_package or writes into the
\* pub fields of CompileOptions, and the contents that go with them
KeyChoices == {RelA, PathA, RelB, PathB}
ContentChoices == {BytesA, BytesLogo}

\* rooted paths a FileId can carry
LookupPaths == {PathA, PathB, PathC}

\* entry names of the archives whose extraction is read back
RelNested == <<"d", "/", "a">>
RelDotted == <<".", "/", "a">>
ArchEntries == { FileEntry(r, c) : r \in {RelA, RelNested, RelDotted}, c \in {BytesA, BytesB} }
Archives == SeqsUpTo(ArchEntries, MaxEntries)

ProbeInputs ==
    { [fn |-> "normalize_path", arg |-> p, out |-> <<>>, done |-> FALSE] : p \in Paths }
    \cup
    { [fn |-> "download", arg |-> a, arc |-> a, mem |-> EmptyMap, allWritten |-> TRUE,
       out |-> EmptyMap, done |-> FALSE] : a \in Archives }
    \cup
    { [fn |-> "options", opts |-> CompileOptionsNew, log |-> <<>>, literal |-> FALSE,
       stage |-> "build", path |-> <<>>, out |-> NoResult] }

InitPure ==
    /\ InitResolver({TextTitle}, {CompileOptionsNew}, {TRUE}, {TRUE}, {EmptyMap})
    /\ probe \in ProbeInputs

\* normalize_path(path)
ApplyNormalize ==
    /\ probe.fn = "normalize_path" /\ ~probe.done
    /\ probe' = [probe EXCEPT !.out = normalize_path(probe.arg), !.done = TRUE]
    /\ UNCHANGED << options, main, files, packages, allow_downloads, readers, writer,
                    cache_dir, disk, pc, call, arc, dl, res, io, persistFailed, calls,
                    fetched, seen, faults >>

\* one turn of download_package's loop over a file entry: the write to the
\* package directory and files.insert
ApplyExtract ==
    /\ probe.fn = "download" /\ ~probe.done /\ probe.arc # <<>>
    /\ LET e == Head(probe.arc) IN
       \E w \in WriteOutcomes :
          /\ disk' = PersistFile(disk, Demo, e.path, e.content, w)
          /\ probe' = [probe EXCEPT !.arc = Tail(@),
                                    !.mem = AfterEntry(@, e, w),
                                    !.allWritten = @ /\ w = "written"]
    /\ UNCHANGED << options, main, files, packages, allow_downloads, readers, writer,
                    cache_dir, pc, call, arc, dl, res, io, persistFailed, calls,
                    fetched, seen, faults >>

\* a later session's download_package finds the directory and reads it
ApplyReadBack ==
    /\ probe.fn = "download" /\ ~probe.done /\ probe.arc = <<>>
    /\ Demo \in DOMAIN disk
    /\ probe' = [probe EXCEPT !.out = read_package_dir(disk[Demo]), !.done = TRUE]
    /\ UNCHANGED << options, main, files, packages, allow_downloads, readers, writer,
                    cache_dir, disk, pc, call, arc, dl, res, io, persistFailed, calls,
                    fetched, seen, faults >>

\* options.with_file(path, content)
BuildWithFile ==
    /\ probe.fn = "options" /\ probe.stage = "build" /\ Len(probe.log) < MaxInserts
    /\ \E k \in KeyChoices, c \in ContentChoices :
          probe' = [probe EXCEPT !.opts = with_file(@, k, c),
                                 !.log = Append(@, [key |-> k, content |-> c])]
    /\ UNCHANGED << options, main, files, packages, allow_downloads, readers, writer,
                    cache_dir, disk, pc, call, arc, dl, res, io, persistFailed, calls,
                    fetched, seen, faults >>

\* options.with_package(spec, files) with a file set of one file
BuildWithPackage ==
    /\ probe.fn = "options" /\ probe.stage = "build" /\ Len(probe.log) < MaxInserts
    /\ \E k \in KeyChoices :
          probe' = [probe EXCEPT !.opts = with_package(@, Demo, [p \in {k} |-> BytesSeed]),
                                 !.log = Append(@, [key |-> <<>>, content |-> <<>>])]
    /\ UNCHANGED << options, main, files, packages, allow_downloads, readers, writer,
                    cache_dir, disk, pc, call, arc, dl, res, io, persistFailed, calls,
                    fetched, seen, faults >>

\* the fields of CompileOptions are pub: options.files.insert(path, content)
BuildLiteral ==
    /\ probe.fn = "options" /\ probe.stage = "build" /\ Len(probe.log) < MaxInserts
    /\ \E k \in KeyChoices, c \in ContentChoices :
          probe' = [probe EXCEPT !.opts = [@ EXCEPT !.files = Put(@, k, c)],
                                 !.log = Append(@, [key |-> k, content |-> c]),
                                 !.literal = TRUE]
    /\ UNCHANGED << options, main, files, packages, allow_downloads, readers, writer,
                    cache_dir, disk, pc, call, arc, dl, res, io, persistFailed, calls,
                    fetched, seen, faults >>

\* CompileWorld::new(source, options)
Construct ==
    /\ probe.fn = "options" /\ probe.stage = "build"
    /\ options' = probe.opts
    /\ files' = NewFiles(probe.opts)
    /\ packages' = NewPackages(probe.opts)
    /\ probe' = [probe EXCEPT !.stage = "world"]
    /\ UNCHANGED << main, allow_downloads, readers, writer,
                    cache_dir, disk, pc, call, arc, dl, res, io, persistFailed, calls,
                    fetched, seen, faults >>

\* World::file(id) of a plain-path id on the constructed resolver
ApplyFile ==
    /\ probe.fn = "options" /\ probe.stage = "world"
    /\ \E p \in LookupPaths :
          probe' = [probe EXCEPT !.stage = "looked", !.path = p,
                                 !.out = ResultOf(files, FileId(NoPkg, p).vpath)]
    /\ UNCHANGED << options, main, files, packages, allow_downloads, readers, writer,
                    cache_dir, disk, pc, call, arc, dl, res, io, persistFailed, calls,
                    fetched, seen, faults >>

NextPure ==
    \/ ApplyNormalize
    \/ ApplyExtract
    \/ ApplyReadBack
    \/ BuildWithFile
    \/ BuildWithPackage
    \/ BuildLiteral
    \/ Construct
    \/ ApplyFile

SpecPure == InitPure /\ [][NextPure]_vars



(* ------------------------------- claims -------------------------------- *)

IsPackageCall(t) == call[t].id.pkg # NoPkg
InCache(s, p) == s \in DOMAIN packages /\ p \in DOMAIN packages[s]
DemoFiles == ArchiveFiles(Registry[Demo])

\* C1: once a lookup of `spec` has completed a successful fetch, a later
\* get_package_file(spec, path) for a path of the fetched set returns the
\* fetched bytes and does no disk read and no network request.
C1_HitAfterFetch ==
    \A t \in Threads :
        (pc[t] = "done" /\ IsPackageCall(t)) =>
            \A fs \in seen[t] :
                PathOf(t) \in DOMAIN fs =>
                    /\ res[t] = WorldResult(call[t].op, Ok(fs[PathOf(t)]))
                    /\ io[t] = "none"

\* C2: with the registry reachable, the archive well-formed and no disk
\* failure, every concurrent lookup of a path of the archive for the uncached
\* package returns Ok with the archive's bytes, and once all calls have
\* returned the cache entry is the complete file set of the archive.
C2_ConcurrentMissesConsistent ==
    ~faults =>
        /\ \A t \in Threads :
              (pc[t] = "done" /\ SpecOf(t) = Demo /\ PathOf(t) \in DOMAIN DemoFiles) =>
                  res[t] = WorldResult(call[t].op, Ok(DemoFiles[PathOf(t)]))
        /\ ((\A t \in Threads : pc[t] \in {"idle", "done"}) /\ Demo \in DOMAIN packages) =>
              packages[Demo] = DemoFiles

\* C3: a commit never overwrites an entry already present for its spec
\* (first writer wins).
C3_FirstWriterWins ==
    [][\A s \in Specs :
          s \in DOMAIN packages => (s \in DOMAIN packages' /\ packages'[s] = packages[s])]_vars

\* C4: every (spec, path) pair of the in-memory cache stays present with the
\* same bytes in every later state.
C4_CacheOnlyGrows ==
    [][\A s \in DOMAIN packages : \A p \in DOMAIN packages[s] :
          /\ s \in DOMAIN packages'
          /\ p \in DOMAIN packages'[s]
          /\ packages'[s][p] = packages[s][p]]_vars

\* C5: an entry of the in-memory cache changes only in one step of a thread
\* that holds the write lock while no thread holds the read lock, and the new
\* entry is that thread's whole file set; the write lock excludes readers.
C5_WholeSetUnderWriteLock ==
    [][/\ (writer # NoWriter => readers = {})
       /\ (writer' # NoWriter => readers' = {})
       /\ \A s \in Specs :
             (\/ (s \in DOMAIN packages) # (s \in DOMAIN packages')
              \/ (s \in DOMAIN packages /\ s \in DOMAIN packages' /\ packages'[s] # packages[s]))
             => \E t \in Threads :
                   /\ pc[t] = "insert" /\ writer = t /\ readers = {}
                   /\ SpecOf(t) = s
                   /\ s \in DOMAIN packages'
                   /\ packages'[s] = dl[t]]_vars

\* a reader holds the read lock on a two-file entry installed by a commit
\* while another thread waits for the write lock with its own file set
C5_Witness ==
    \E t \in Threads, u \in Threads :
        /\ t # u
        /\ pc[t] = "lookup" /\ t \in readers /\ SpecOf(t) = Demo
        /\ Demo \in DOMAIN fetched /\ Demo \in DOMAIN packages
        /\ Cardinality(DOMAIN packages[Demo]) = 2
        /\ pc[u] = "wlock" /\ SpecOf(u) = Demo

\* C6: a lookup never returns the error of a failed disk-cache read; it goes
\* on to the network instead.
C6_DiskFailureFallsThrough ==
    \A t \in Threads :
        (pc[t] = "done" /\ IsPackageCall(t) /\ io[t] = "disk") => res[t].err # ErrOther

C8_SeededLookup ==
    \A t \in Threads :
        (/\ pc[t] = "done"
         /\ IsPackageCall(t)
         /\ SpecOf(t) \in DOMAIN options.packages
         /\ PathOf(t) \in DOMAIN options.packages[SpecOf(t)]) =>
            /\ res[t] = WorldResult(call[t].op, Ok(options.packages[SpecOf(t)][PathOf(t)]))
            /\ io[t] = "none"

\* C9: with downloads disabled no call does disk or network I/O or waits for
\* a writer, the package cache stays as constructed, and every lookup of a
\* file that is not in the cache returns Package(NotFound).
C9_DownloadsDisabled ==
    ~allow_downloads =>
        /\ packages = NewPackages(options)
        /\ writer = NoWriter
        /\ \A t \in Threads :
              /\ io[t] = "none"
              /\ pc[t] \in {"idle", "rlock", "lookup", "done"}
              /\ (pc[t] = "rlock" => ENABLED ReadLock(t))
              /\ (pc[t] = "lookup" => ENABLED Lookup(t))
              /\ (pc[t] = "done" /\ IsPackageCall(t) /\ ~InCache(SpecOf(t), PathOf(t))) =>
                    res[t] = Err(ErrPkgNotFound)

\* downloads are off and a lookup of a missing file of the seeded package has
\* returned Package(NotFound)
C9_Witness ==
    \E t \in Threads :
        /\ ~allow_downloads
        /\ pc[t] = "done" /\ SpecOf(t) = Demo
        /\ Demo \in DOMAIN packages /\ PathOf(t) \notin DOMAIN packages[Demo]
        /\ res[t] = Err(ErrPkgNotFound)

\* C10: a failed directory creation or file write during a download neither
\* ends the call nor drops a file: the commit stores the archive's full file
\* set and the call returns the archive's bytes for its path.
C10_PersistFailureNotFatal ==
    [][\A t \in Threads :
          /\ (pc[t] \in {"download", "extract"} /\ persistFailed'[t] /\ pc'[t] = "done") =>
                (arc[t] # <<>> /\ Head(arc[t]).kind = "bad")
          /\ (pc[t] = "insert" /\ pc'[t] = "done" /\ io[t] = "net" /\ persistFailed[t]) =>
                /\ packages'[SpecOf(t)] = ArchiveFiles(Registry[SpecOf(t)])
                /\ res'[t] = WorldResult(call[t].op,
                                ResultOf(ArchiveFiles(Registry[SpecOf(t)]), PathOf(t)))]_vars

\* a download whose disk writes failed has returned Ok, the cache holds the
\* full archive and the disk cache lacks the file that was asked for
C10_Witness ==
    \E t \in Threads :
        /\ pc[t] = "done" /\ io[t] = "net" /\ persistFailed[t]
        /\ res[t].tag = "Ok"
        /\ Demo \in DOMAIN packages /\ packages[Demo] = DemoFiles
        /\ (Demo \notin DOMAIN disk \/ Tail(PathOf(t)) \notin DOMAIN disk[Demo])

\* C11: once a download has written the whole file set of a package to the
\* disk cache, a fresh resolver reading the package from disk gets the same
\* path |-> bytes mapping as the download returned, every path rooted at "/".
C11_DiskRoundTrip ==
    (probe.fn = "download" /\ probe.done /\ probe.allWritten) =>
        /\ probe.out = probe.mem
        /\ \A k \in DOMAIN probe.out : IsAbsolute(k)

\* with_file entries of the builder log whose key has the rooted form p
InsertsAt(p) ==
    { i \in 1..Len(probe.log) : probe.log[i].key # <<>> /\ normalize_path(probe.log[i].key) = p }

\* the i-th builder call is the last one made under its very key
LastUnderKey(i) ==
    \A j \in 1..Len(probe.log) : probe.log[j].key = probe.log[i].key => j <= i

\* C12 (as stated): on a resolver built with with_file, file(Path(k)) returns
\* exactly the bytes inserted under k for every inserted key k, and
\* file(Path(p)) fails with NotFound for a path p that was not inserted.
C12_StaticRoundTrip ==
    (probe.fn = "options" /\ probe.stage = "looked" /\ ~probe.literal) =>
        /\ \A i \in InsertsAt(probe.path) :
              LastUnderKey(i) => probe.out = Ok(probe.log[i].content)
        /\ (InsertsAt(probe.path) = {}) => probe.out = Err(ErrNotFound)

\* C12 (amended): file(Path(k)) returns the bytes of the last with_file call
\* whose key has the same rooted form as k (a later call under "a" or "/a"
\* replaces an earlier one under either), and file(Path(p)) fails with
\* NotFound when no inserted key has the rooted form p.
C12_LastInsertWins ==
    (probe.fn = "options" /\ probe.stage = "looked" /\ ~probe.literal) =>
        /\ \A i \in InsertsAt(probe.path) :
              (\A j \in InsertsAt(probe.path) : j <= i) => probe.out = Ok(probe.log[i].content)
        /\ (InsertsAt(probe.path) = {}) => probe.out = Err(ErrNotFound)

\* two inserts under "a" and "/a" with different bytes, looked up at "/a"
C12_Witness ==
    /\ probe.fn = "options" /\ probe.stage = "looked" /\ ~probe.literal
    /\ probe.path = PathA
    /\ Len(probe.log) = 2
    /\ probe.log[1] = [key |-> RelA, content |-> BytesA]
    /\ probe.log[2] = [key |-> PathA, content |-> BytesLogo]
    /\ probe.out = Ok(BytesLogo)

\* C13: for every path string p, normalize_path(p) starts with "/",
\* normalize_path is idempotent, and a p that starts with "/" comes back unchanged.
C13_NormalizePath ==
    (probe.fn = "normalize_path" /\ probe.done) =>
        /\ Len(probe.out) > 0 /\ probe.out[1] = "/"
        /\ normalize_path(probe.out) = probe.out
        /\ (IsAbsolute(probe.arg) => probe.out = probe.arg)

\* both kinds of input have been normalized: a rooted one and an unrooted one
C13_Witness ==
    /\ probe.fn = "normalize_path" /\ probe.done
    /\ probe.arg = <<"/", "a", ".">>
    /\ probe.out = probe.arg

\* C17: in every resolver constructed from a CompileOptions value, all keys
\* of the static file table and all paths of every package file set in the
\* package cache start with "/".
C17_KeysRooted ==
    /\ \A k \in DOMAIN files : IsAbsolute(k)
    /\ \A s \in DOMAIN packages : \A k \in DOMAIN packages[s] : IsAbsolute(k)

\* the file set fs is on disk in the package directory of s
OnDisk(s, fs) ==
    /\ s \in DOMAIN disk
    /\ \A k \in DOMAIN fs :
          k \in DOMAIN read_package_dir(disk[s]) /\ read_package_dir(disk[s])[k] = fs[k]

\* the tiers are tried in the order memory, disk, network
TierOrder(t) ==
    \* download_package is entered only from a lookup that missed
    /\ (pc[t] # "download" /\ pc'[t] = "download") =>
          pc[t] = "lookup" /\ ~InCache(SpecOf(t), PathOf(t))
    \* disk and network are touched only inside download_package
    /\ (io'[t] # io[t] /\ io'[t] \in {"disk", "net"}) => pc[t] = "download"
    \* the network is asked only when the disk has no directory for the spec
    /\ (io'[t] # io[t] /\ io'[t] = "net") => ~(cache_dir /\ SpecOf(t) \in DOMAIN disk)
    /\ (io'[t] # io[t] /\ io'[t] = "disk") => (cache_dir /\ SpecOf(t) \in DOMAIN disk)

\* the step that ends a successful network fetch
FetchCommits(t) == pc[t] = "insert" /\ pc'[t] = "done" /\ io[t] = "net"

\* C14 (as stated): the tiers are tried strictly in the order memory, disk,
\* network, and a successful network fetch writes the file set back to both
\* the in-memory cache and the disk cache.
C14_TiersAndWriteBack ==
    [][\A t \in Threads :
          /\ TierOrder(t)
          /\ FetchCommits(t) =>
                /\ packages'[SpecOf(t)] = dl[t]
                /\ OnDisk(SpecOf(t), dl[t])]_vars

\* C14 (amended): same order of tiers; a successful network fetch writes the
\* file set to the in-memory cache, and the disk cache holds it too when a
\* cache directory is available and none of the fetch's disk writes failed.
C14_TiersAndBestEffortWriteBack ==
    [][\A t \in Threads :
          /\ TierOrder(t)
          /\ FetchCommits(t) =>
                /\ packages'[SpecOf(t)] = dl[t]
                /\ (cache_dir /\ ~persistFailed[t]) => OnDisk(SpecOf(t), dl[t])]_vars

\* a network fetch has ended well and its file set is in memory and on disk
C14_Witness ==
    \E t \in Threads :
        /\ pc[t] = "done" /\ io[t] = "net" /\ res[t].tag = "Ok"
        /\ cache_dir /\ ~persistFailed[t]
        /\ InCache(Demo, PathA) /\ packages[Demo] = DemoFiles
        /\ OnDisk(Demo, DemoFiles)

\* C15: no thread holds the package cache lock, read or write, while its disk
\* read or network fetch is in progress: the read guard is held only for the
\* lookup, the write guard only for the commit, so a fetching thread never
\* keeps another thread from taking the read lock.
C15_NoLockDuringIO ==
    \A t \in Threads :
        /\ pc[t] \in {"download", "extract", "wlock"} => (t \notin readers /\ writer # t)
        /\ t \in readers => pc[t] = "lookup"
        /\ writer = t => pc[t] = "insert"

\* one thread is extracting a fetched archive while another holds the read lock
C15_Witness ==
    \E t, u \in Threads :
        /\ pc[t] = "extract" /\ io[t] = "net"
        /\ u # t /\ u \in readers /\ pc[u] = "lookup"

\* the step in which a thread's lookup learns that the registry (and the
\* disk) has no such package
AbsentEverywhere(t) ==
    /\ pc[t] = "download" /\ pc'[t] = "done" /\ io'[t] = "net"
    /\ SpecOf(t) \notin DOMAIN Registry

\* the step that commits a fetched file set which lacks the requested path
FetchedWithoutPath(t) ==
    /\ pc[t] = "insert" /\ pc'[t] = "done"
    /\ PathOf(t) \notin DOMAIN dl[t]

\* C16 (as stated): a lookup fails with NotFound when neither the disk cache
\* nor the registry has the package, and when the package was fetched but its
\* file set lacks the requested path.
C16_NotFoundWhenAbsent ==
    [][\A t \in Threads :
          /\ AbsentEverywhere(t) => res'[t].err \in {ErrNotFound, ErrPkgNotFound}
          /\ FetchedWithoutPath(t) => res'[t] = Err(ErrNotFound)]_vars

\* C16 (amended): with downloads allowed, a lookup of a package that neither
\* the disk cache nor the registry has fails with Package(NetworkFailed); a
\* lookup whose package was fetched but lacks the requested path fails with
\* NotFound.
C16_AbsentIsNetworkFailed ==
    [][\A t \in Threads :
          /\ AbsentEverywhere(t) => res'[t] = Err(ErrNetwork)
          /\ FetchedWithoutPath(t) => res'[t] = Err(ErrNotFound)]_vars

\* both failures have happened: an unknown package, and a path the fetched set lacks
C16_Witness ==
    \E t, u \in Threads :
        /\ pc[t] = "done" /\ SpecOf(t) = Ghost /\ io[t] = "net" /\ res[t] = Err(ErrNetwork)
        /\ pc[u] = "done" /\ call[u].id = FileId(Demo, PathC) /\ io[u] = "net"
        /\ res[u] = Err(ErrNotFound) /\ Demo \in DOMAIN packages

\* String::from_utf8 applied to the bytes a source() call got
Decoded(bytes) == IF IsUtf8(bytes) THEN Ok(bytes) ELSE Err(ErrUtf8)

\* source() of a package id returns the bytes of the package cache chain, decoded
PackageSourceDecoded(t) ==
    /\ (pc[t] = "lookup" /\ pc'[t] = "done" /\ InCache(SpecOf(t), PathOf(t))) =>
          res'[t] = Decoded(packages[SpecOf(t)][PathOf(t)])
    /\ (pc[t] = "insert" /\ pc'[t] = "done" /\ PathOf(t) \in DOMAIN dl[t]) =>
          res'[t] = Decoded(dl[t][PathOf(t)])

\* the step in which thread t calls source() with a plain-path id
PlainSourceCall(t) ==
    /\ pc[t] = "idle" /\ pc'[t] # "idle"
    /\ call'[t].op = "source" /\ call'[t].id.pkg = NoPkg

DirComplete(s) ==
    s \in DOMAIN Registry /\ read_package_dir(disk[s]) = ArchiveFiles(Registry[s])

\* C19: the disk cache directory of a spec exists only if a fetch of that spec
\* completed with all its files written; a failed download (network error,
\* malformed archive) leaves no directory behind for a later lookup to take
\* for a cached package.
C19_DirOnlyAfterCompleteFetch ==
    /\ \A s \in DOMAIN disk :
          (\E t \in Threads : pc[t] = "extract" /\ SpecOf(t) = s) \/ DirComplete(s)
    /\ \A t \in Threads :
          (pc[t] = "done" /\ io[t] = "net" /\ res[t].err \in {ErrNetwork, ErrMalformed}) =>
              (SpecOf(t) \notin DOMAIN disk \/ DirComplete(SpecOf(t)))

\* the step in which thread t's fetch fails (disk read error, network
\* failure or malformed archive)
FetchFails(t) ==
    pc[t] \in {"download", "extract"} /\ pc'[t] = "done" /\ res'[t].tag = "Err"

\* C20: a package lookup whose fetch fails leaves the in-memory package cache
\* as it was, and no lookup of any kind changes the static file table or the
\* main document.
C20_FailedLookupFrame ==
    [][/\ files' = files
       /\ main' = main
       /\ \A t \in Threads : FetchFails(t) => packages' = packages
       /\ packages' # packages =>
             \E t \in Threads : pc[t] = "insert" /\ pc'[t] = "done"]_vars

\* a fetch has failed midway through its archive and the cache has no entry
C20_Witness ==
    \E t \in Threads :
        /\ pc[t] = "done" /\ io[t] = "net" /\ res[t] = Err(ErrMalformed)
        /\ Demo \notin DOMAIN packages
        /\ Demo \in DOMAIN disk

====
